---- MODULE Spec2Model ----
(***************************************************************************)
(* ASAPPyTools cftime: the CF-convention calendars (calendars.py), the     *)
(* DateTime constructor with its normalization (datetime.py), the time     *)
(* units (timeunits.py, cftime.py) and CFDateTimeDelta (cftime.py).        *)
(*                                                                         *)
(* Python values are modelled as follows.  An optional value is a sequence *)
(* of length 0 (None) or 1 (the value).  A raised exception is a record    *)
(* naming the exception type and the function that raises it.  The float  *)
(* second and zone of a date tuple carry integral values only, so that    *)
(* float(x) of an integer x is the same number and every comparison with  *)
(* 60.0 or 0.0 is exact.                                                   *)
(***************************************************************************)
EXTENDS Integers, Sequences, FiniteSets, TLC

VARIABLES
    cal,       \* the Calendar object the client holds (NoCalendar: none was returned)
    created,   \* the last create_calendar call: its arguments and its exception
    query,     \* the last is_leap_year / days_in_month / days_in_year call on cal
    calendar,  \* DateTime.__init__: the calendar argument (a name, or Instance for cal)
    raw,       \* DateTime.__init__: the (year, ..., zone) arguments
    dttuple,   \* DateTime._dttuple of the object under construction
    loc,       \* normalize_datetime: the locals year, month, day, hour, minute, second, zone
    pc,        \* position of the DateTime construction
    exc,       \* the exception that ended the DateTime construction, if any
    ucall,     \* the last call of a unit function: its argument and its outcome
    objs,      \* the CFDateTimeDelta objects made so far, in order of creation
    dcall,     \* the last CFDateTimeDelta operation: its operands and its outcome
    passed,    \* the operand objects of that operation as it has left them
    inplace,   \* the += and -= done so far: their number, and the receiver of the last
    concurrent, \* a second DateTime under construction on the same Calendar object
    _start_times,        \* TimeKeeper._start_times
    _accumulated_times,  \* TimeKeeper._accumulated_times
    _added_order,        \* TimeKeeper._added_order
    clock,     \* the time that TimeKeeper._time() returns
    kcall,     \* the last TimeKeeper call: its name argument and what it returned
    history    \* of the TimeKeeper calls: the names in order of first use, and
               \* per name the time of its last reset and of its last start or reset

calvars == <<cal, created, query, calendar, raw, dttuple, loc, pc, exc>>

unitvars == <<ucall>>

deltavars == <<objs, dcall, passed, inplace>>

sharedvars == <<concurrent>>

keepervars == <<_start_times, _accumulated_times, _added_order, clock, kcall, history>>

vars == <<calvars, unitvars, deltavars, sharedvars, keepervars>>

-----------------------------------------------------------------------------
(* Python values *)

None == <<>>

Some(v) == <<v>>

\* bool(x) of an optional integer: None and 0 are false
Truthy(x) == x # None /\ x[1] # 0

NoExc == [type |-> "", at |-> ""]

Raise(type, at) == [type |-> type, at |-> at]

RECURSIVE sum(_)
sum(s) == IF s = <<>> THEN 0 ELSE Head(s) + sum(Tail(s))

-----------------------------------------------------------------------------
(* Bounds and input sets *)

\* how many years the day-carry loop may move past the raw year
MaxCarryYears == 1

\* the TimeKeeper model makes MaxCalls calls while the clock runs to MaxClock
MaxCalls == 5

MaxClock == 3

\* the largest raw day

MaxDay == 60

Gregorian == <<31, 28, 31, 30, 31, 30, 31, 31, 30, 31, 30, 31>>

Zeros == <<0, 0, 0, 0, 0, 0, 0, 0, 0, 0, 0, 0>>

Thirties == <<30, 30, 30, 30, 30, 30, 30, 30, 30, 30, 30, 30>>

\* month_lengths_2 of calendarsTests.py
TestLengths == <<31, 30, 31, 30, 31, 30, 31, 30, 30, 31, 30, 31>>

Eleven == <<31, 28, 31, 30, 31, 30, 31, 31, 30, 31, 30>>

RecognizedNames ==
    {"gregorian", "standard", "proleptic_gregorian", "noleap", "365_day",
     "all_leap", "366_day", "360_day", "julian", "none"}

UserName == "Cal"

-----------------------------------------------------------------------------
(* calendars.py *)

NoCalendar ==
    [cls |-> "", name |-> "", month_lengths |-> <<>>, leap_year |-> None,
     leap_month |-> None, year_length |-> 0]

IsCalendar(c) == c.cls # ""

\* CalendarGeneric.__init__ with well-typed arguments; month_lengths is None
\* when the keyword is not passed at all
CalendarGeneric_init(name, month_lengths, leap_year, leap_month) ==
    IF month_lengths = None
    THEN [exc |-> Raise("TypeError", "CalendarGeneric.__init__"), obj |-> NoCalendar]
    ELSE IF Len(month_lengths[1]) # 12
    THEN [exc |-> Raise("ValueError", "CalendarGeneric.__init__"), obj |-> NoCalendar]
    ELSE IF /\ Truthy(leap_year)
            /\ leap_month # None
            /\ (leap_month[1] < 1 \/ leap_month[1] > 12)
    THEN [exc |-> Raise("ValueError", "CalendarGeneric.__init__"), obj |-> NoCalendar]
    ELSE [exc |-> NoExc,
          obj |-> [cls |-> "CalendarGeneric", name |-> name,
                   month_lengths |-> month_lengths[1], leap_year |-> leap_year,
                   leap_month |-> leap_month,
                   year_length |-> sum(month_lengths[1])]]

\* The constructors of CalendarNone, Calendar360Day, Calendar365Day,
\* Calendar366Day, CalendarJulian, CalendarProlepticGregorian and
\* CalendarStandard all call super(CalendarGeneric, self).__init__(name, ...):
\* the class after CalendarGeneric in the method resolution order is Calendar,
\* which defines no __init__, so the call reaches object.__init__ with
\* arguments and raises TypeError.
NamedCalendar_init(name) ==
    [exc |-> Raise("TypeError", "object.__init__"), obj |-> NoCalendar]

create_calendar(name, month_lengths, leap_year, leap_month) ==
    IF name \in RecognizedNames
    THEN NamedCalendar_init(name)
    ELSE CalendarGeneric_init(name, month_lengths, leap_year, leap_month)

\* CalendarGeneric.is_leap_year
is_leap_year(c, year) ==
    Truthy(c.leap_year) /\ (year - c.leap_year[1]) % 4 = 0

\* CalendarGeneric.days_in_month; year is optional
days_in_month(c, month, year) ==
    IF month < 1 \/ month > 12
    THEN [exc |-> Raise("ValueError", "Calendar.days_in_month"), value |-> 0]
    ELSE IF /\ Truthy(year)
            /\ is_leap_year(c, year[1])
            /\ Some(month) = c.leap_month
    THEN [exc |-> NoExc, value |-> c.month_lengths[month] + 1]
    ELSE [exc |-> NoExc, value |-> c.month_lengths[month]]

\* CalendarGeneric.days_in_year; year is optional
days_in_year(c, year) ==
    IF Truthy(year) /\ is_leap_year(c, year[1])
    THEN c.year_length + 1
    ELSE c.year_length

\* CalendarGeneric.name
Calendar_name(c) == c.name

-----------------------------------------------------------------------------
(* CalendarGeneric.normalize_datetime: the bodies of its eight while loops, *)
(* on the locals t = (year, month, day, hour, minute, second, zone)        *)

second_carry(t) == [t EXCEPT !.second = @ - 60, !.minute = @ + 1]

second_borrow(t) == [t EXCEPT !.second = @ + 60, !.minute = @ - 1]

minute_carry(t) == [t EXCEPT !.minute = @ - 60, !.hour = @ + 1]

minute_borrow(t) == [t EXCEPT !.minute = @ + 60, !.hour = @ - 1]

\* the hour carry with the zone set to UTC on the way
hour_carry_to_utc(t) == [t EXCEPT !.hour = @ - 24, !.day = @ + 1, !.zone = 0]

hour_carry(t) == [t EXCEPT !.hour = @ - 24, !.day = @ + 1]

hour_borrow(t) == [t EXCEPT !.hour = @ + 60, !.day = @ - 1]

\* while month > 12: month -= 12; year += 1
RECURSIVE month_carry(_)
month_carry(t) ==
    IF t.month > 12
    THEN month_carry([t EXCEPT !.month = @ - 12, !.year = @ + 1])
    ELSE t

\* while month < 1: month += 12; year -= 1
RECURSIVE month_borrow(_)
month_borrow(t) ==
    IF t.month < 1
    THEN month_borrow([t EXCEPT !.month = @ + 12, !.year = @ - 1])
    ELSE t

\* day -= days_in_month(month, year); month += 1; then the inner month loop.
\* The loop condition has just called days_in_month(month, year) without an
\* exception, so the call in the body returns as well.
day_carry(c, t) ==
    LET d == days_in_month(c, t.month, Some(t.year))
    IN  [exc |-> d.exc,
         t |-> IF d.exc # NoExc THEN t
               ELSE month_carry([t EXCEPT !.day = @ - d.value, !.month = @ + 1])]

\* day_borrow with the mistake of adding the length of the month left
\* instead of the month entered
day_borrow_old_month(c, t) ==
    LET m == t.month - 1
        d == days_in_month(c, m, Some(t.year))
        o == days_in_month(c, t.month, Some(t.year))
    IN  [exc |-> d.exc,
         t |-> IF d.exc # NoExc THEN [t EXCEPT !.month = m]
               ELSE month_borrow([t EXCEPT !.month = m, !.day = @ + o.value])]

\* month -= 1; day += days_in_month(month, year); then the inner month loop
day_borrow(c, t) ==
    LET m == t.month - 1
        d == days_in_month(c, m, Some(t.year))
    IN  [exc |-> d.exc,
         t |-> IF d.exc # NoExc THEN [t EXCEPT !.month = m]
               ELSE month_borrow([t EXCEPT !.month = m, !.day = @ + d.value])]

\* the condition of the day-carry loop with the loop condition's mistake of
\* carrying a day equal to the month's length
day_overflows_ge(c, t) ==
    LET d == days_in_month(c, t.month, Some(t.year))
    IN  [exc |-> d.exc, value |-> d.exc = NoExc /\ t.day >= d.value]

\* day > self.days_in_month(month, year)
day_overflows(c, t) ==
    LET d == days_in_month(c, t.month, Some(t.year))
    IN  [exc |-> d.exc, value |-> d.exc = NoExc /\ t.day > d.value]

Loops ==
    <<"second_carry", "second_borrow", "minute_carry", "minute_borrow",
      "hour_carry", "hour_borrow", "day_carry", "day_borrow">>

\* the condition of the i-th while loop; that of day_carry calls days_in_month
LoopCondition(i, c, t) ==
    CASE i = 1 -> [exc |-> NoExc, value |-> t.second >= 60]
      [] i = 2 -> [exc |-> NoExc, value |-> t.second < 0]
      [] i = 3 -> [exc |-> NoExc, value |-> t.minute >= 60]
      [] i = 4 -> [exc |-> NoExc, value |-> t.minute < 0]
      [] i = 5 -> [exc |-> NoExc, value |-> t.hour >= 24]
      [] i = 6 -> [exc |-> NoExc, value |-> t.hour < 0]
      [] i = 7 -> day_overflows(c, t)
      [] i = 8 -> [exc |-> NoExc, value |-> t.day < 1]

\* Control reaches the condition of loop i with locals t: the loop whose body
\* runs next, "done" when every remaining condition is false, or the
\* exception a condition raises
RECURSIVE Goto(_, _, _)
Goto(i, c, t) ==
    IF i > Len(Loops) THEN [exc |-> NoExc, pc |-> "done"]
    ELSE LET g == LoopCondition(i, c, t)
         IN  IF g.exc # NoExc THEN [exc |-> g.exc, pc |-> "raised"]
             ELSE IF g.value THEN [exc |-> NoExc, pc |-> Loops[i]]
             ELSE Goto(i + 1, c, t)

-----------------------------------------------------------------------------
(* datetime.py: DateTime.__init__ *)

\* no date tuple: before the first DateTime call
NoTuple ==
    [year |-> 0, month |-> 0, day |-> 0, hour |-> 0, minute |-> 0,
     second |-> 0, zone |-> 0]

\* the calendar argument that passes the client's Calendar object
Instance == "<Calendar>"

\* self._calendar for the calendar argument c: create_calendar(c) is called
\* without keyword arguments when c is a name
BindCalendar(c) ==
    IF c = Instance
    THEN [exc |-> NoExc, obj |-> cal]
    ELSE create_calendar(c, None, None, None)

\* Control is at the condition of loop i with locals t: the next position,
\* and on "done" the write-back datetime._dttuple = [year, ..., zone]
Continue(i, t) ==
    LET g == Goto(i, BindCalendar(calendar).obj, t)
    IN  /\ pc' = g.pc
        /\ exc' = g.exc
        /\ loc' = t
        /\ dttuple' = IF g.pc = "done" THEN t ELSE dttuple

\* DateTime(year, month, day, hour, minute, second, zone, calendar): the
\* calendar is bound, the tuple is stored and normalize_datetime runs up to
\* its first loop body, to its end or to an exception
DateTimeInit(c, t) ==
    /\ pc = "idle"
    /\ c = Instance => IsCalendar(cal)
    /\ calendar' = c
    /\ raw' = t
    /\ LET b == BindCalendar(c)
           g == Goto(1, b.obj, t)
       IN  IF b.exc # NoExc
           THEN /\ pc' = "raised"
                /\ exc' = b.exc
                /\ dttuple' = NoTuple
                /\ loc' = NoTuple
           ELSE /\ pc' = g.pc
                /\ exc' = g.exc
                /\ dttuple' = t
                /\ loc' = t
    /\ UNCHANGED <<cal, created, query, unitvars, deltavars, sharedvars, keepervars>>

\* one pass through the body of the loop control is in, and the loop
\* conditions after it
SecondCarry ==
    /\ pc = "second_carry"
    /\ Continue(1, second_carry(loc))
    /\ UNCHANGED <<cal, created, query, calendar, raw, unitvars, deltavars, sharedvars, keepervars>>

SecondBorrow ==
    /\ pc = "second_borrow"
    /\ Continue(2, second_borrow(loc))
    /\ UNCHANGED <<cal, created, query, calendar, raw, unitvars, deltavars, sharedvars, keepervars>>

MinuteCarry ==
    /\ pc = "minute_carry"
    /\ Continue(3, minute_carry(loc))
    /\ UNCHANGED <<cal, created, query, calendar, raw, unitvars, deltavars, sharedvars, keepervars>>

MinuteBorrow ==
    /\ pc = "minute_borrow"
    /\ Continue(4, minute_borrow(loc))
    /\ UNCHANGED <<cal, created, query, calendar, raw, unitvars, deltavars, sharedvars, keepervars>>

HourCarry ==
    /\ pc = "hour_carry"
    /\ Continue(5, hour_carry(loc))
    /\ UNCHANGED <<cal, created, query, calendar, raw, unitvars, deltavars, sharedvars, keepervars>>

HourBorrow ==
    /\ pc = "hour_borrow"
    /\ Continue(6, hour_borrow(loc))
    /\ UNCHANGED <<cal, created, query, calendar, raw, unitvars, deltavars, sharedvars, keepervars>>

\* the model follows the loop for MaxCarryYears years past the raw year
DayCarry ==
    /\ pc = "day_carry"
    /\ LET r == day_carry(BindCalendar(calendar).obj, loc)
       IN  /\ r.t.year <= raw.year + MaxCarryYears
           /\ Continue(7, r.t)
    /\ UNCHANGED <<cal, created, query, calendar, raw, unitvars, deltavars, sharedvars, keepervars>>

DayBorrow ==
    /\ pc = "day_borrow"
    /\ LET r == day_borrow(BindCalendar(calendar).obj, loc)
       IN  IF r.exc # NoExc
           THEN /\ pc' = "raised"
                /\ exc' = r.exc
                /\ loc' = r.t
                /\ dttuple' = dttuple
           ELSE Continue(8, r.t)
    /\ UNCHANGED <<cal, created, query, calendar, raw, unitvars, deltavars, sharedvars, keepervars>>

-----------------------------------------------------------------------------
(* The client's calls on the calendars module *)

NoCall ==
    [name |-> "", month_lengths |-> None, leap_year |-> None,
     leap_month |-> None, exc |-> NoExc]

NoQuery ==
    [op |-> "", month |-> None, year |-> None, exc |-> NoExc,
     bool |-> FALSE, int |-> 0]

\* cal = create_calendar(name, month_lengths=..., leap_year=..., leap_month=...)
CreateCalendar(name, month_lengths, leap_year, leap_month) ==
    /\ created = NoCall
    /\ pc = "idle"
    /\ LET r == create_calendar(name, month_lengths, leap_year, leap_month)
       IN  /\ cal' = r.obj
           /\ created' = [name |-> name, month_lengths |-> month_lengths,
                          leap_year |-> leap_year, leap_month |-> leap_month,
                          exc |-> r.exc]
    /\ UNCHANGED <<query, calendar, raw, dttuple, loc, pc, exc, unitvars, deltavars, sharedvars, keepervars>>

\* cal.is_leap_year(year)
IsLeapYear(year) ==
    /\ IsCalendar(cal)
    /\ query' = [op |-> "is_leap_year", month |-> None, year |-> Some(year),
                 exc |-> NoExc, bool |-> is_leap_year(cal, year), int |-> 0]
    /\ UNCHANGED <<cal, created, calendar, raw, dttuple, loc, pc, exc, unitvars, deltavars, sharedvars, keepervars>>

\* cal.days_in_month(month, year) and cal.days_in_month(month)
DaysInMonth(month, year) ==
    /\ IsCalendar(cal)
    /\ LET r == days_in_month(cal, month, year)
       IN  query' = [op |-> "days_in_month", month |-> Some(month), year |-> year,
                     exc |-> r.exc, bool |-> FALSE, int |-> r.value]
    /\ UNCHANGED <<cal, created, calendar, raw, dttuple, loc, pc, exc, unitvars, deltavars, sharedvars, keepervars>>

\* cal.days_in_year(year) and cal.days_in_year()
DaysInYear(year) ==
    /\ IsCalendar(cal)
    /\ query' = [op |-> "days_in_year", month |-> None, year |-> year,
                 exc |-> NoExc, bool |-> FALSE, int |-> days_in_year(cal, year)]
    /\ UNCHANGED <<cal, created, calendar, raw, dttuple, loc, pc, exc, unitvars, deltavars, sharedvars, keepervars>>

-----------------------------------------------------------------------------
(* A second DateTime constructed on the client's Calendar object while the *)
(* first is under construction: DateTime(..., calendar=cal) in another      *)
(* thread.  normalize_datetime works on its own locals and reads the        *)
(* calendar through days_in_month.                                          *)

NoConcurrent ==
    [raw |-> NoTuple, dttuple |-> NoTuple, loc |-> NoTuple, pc |-> "idle",
     exc |-> NoExc]

\* the index of the loop named p
LoopOf(p) == CHOOSE i \in 1..Len(Loops) : Loops[i] = p

\* one pass through the body of the i-th while loop
LoopBody(i, c, t) ==
    CASE i = 1 -> [exc |-> NoExc, t |-> second_carry(t)]
      [] i = 2 -> [exc |-> NoExc, t |-> second_borrow(t)]
      [] i = 3 -> [exc |-> NoExc, t |-> minute_carry(t)]
      [] i = 4 -> [exc |-> NoExc, t |-> minute_borrow(t)]
      [] i = 5 -> [exc |-> NoExc, t |-> hour_carry(t)]
      [] i = 6 -> [exc |-> NoExc, t |-> hour_borrow(t)]
      [] i = 7 -> day_carry(c, t)
      [] i = 8 -> day_borrow(c, t)

\* the second DateTime(year, month, day, hour, minute, second, zone, cal)
ConcurrentInit(t) ==
    /\ concurrent.pc = "idle"
    /\ IsCalendar(cal)
    /\ LET g == Goto(1, cal, t)
       IN  concurrent' = [raw |-> t, dttuple |-> t, loc |-> t, pc |-> g.pc,
                     exc |-> g.exc]
    /\ UNCHANGED <<calvars, unitvars, deltavars, keepervars>>

\* the position of the second construction after the body of loop i has left
\* the locals r.t or raised r.exc
Passed(i, r) ==
    LET g == Goto(i, cal, r.t)
    IN  IF r.exc # NoExc
        THEN [concurrent EXCEPT !.pc = "raised", !.exc = r.exc, !.loc = r.t]
        ELSE [concurrent EXCEPT !.pc = g.pc, !.exc = g.exc, !.loc = r.t,
                           !.dttuple = IF g.pc = "done" THEN r.t ELSE @]

\* a pass of the second construction that keeps the leap day in the
\* calendar's own list of month lengths
ConcurrentPassLeapDayInPlace ==
    /\ concurrent.pc \in {Loops[i] : i \in 1..Len(Loops)}
    /\ LET i == LoopOf(concurrent.pc)
           r == LoopBody(i, cal, concurrent.loc)
       IN  /\ r.t.year <= concurrent.raw.year + MaxCarryYears
           /\ concurrent' = Passed(i, r)
           /\ cal' = IF is_leap_year(cal, concurrent.loc.year)
                     THEN [cal EXCEPT !.month_lengths[cal.leap_month[1]] = @ + 1]
                     ELSE cal
    /\ UNCHANGED <<created, query, calendar, raw, dttuple, loc, pc, exc,
                   unitvars, deltavars, keepervars>>

\* one pass of the second construction through the body of the loop it is
\* in, and the loop conditions after it
ConcurrentPass ==
    /\ concurrent.pc \in {Loops[i] : i \in 1..Len(Loops)}
    /\ LET i == LoopOf(concurrent.pc)
           r == LoopBody(i, cal, concurrent.loc)
       IN  /\ r.t.year <= concurrent.raw.year + MaxCarryYears
           /\ concurrent' = Passed(i, r)
    /\ UNCHANGED <<calvars, unitvars, deltavars, keepervars>>

-----------------------------------------------------------------------------
(* Python objects.  A value is a record of its type (kind) and its content: *)
(* n for a number (an int, a long, a float of integral value),              *)
(* s for the characters of a str, items for the elements of a list or      *)
(* tuple and for the _dttuple of a CFDateTimeDelta.                         *)

PyInt(n) == [kind |-> "int", n |-> n, s |-> <<>>, items |-> <<>>]

PyLong(n) == [kind |-> "long", n |-> n, s |-> <<>>, items |-> <<>>]

PyFloat(n) == [kind |-> "float", n |-> n, s |-> <<>>, items |-> <<>>]

PyStr(s) == [kind |-> "str", n |-> 0, s |-> s, items |-> <<>>]

PyList(items) == [kind |-> "list", n |-> 0, s |-> <<>>, items |-> items]

PyTuple(items) == [kind |-> "tuple", n |-> 0, s |-> <<>>, items |-> items]

PyNone == [kind |-> "NoneType", n |-> 0, s |-> <<>>, items |-> <<>>]

isinstance(x, types) == x.kind \in types

Uppercase ==
    <<"A", "B", "C", "D", "E", "F", "G", "H", "I", "J", "K", "L", "M",
      "N", "O", "P", "Q", "R", "S", "T", "U", "V", "W", "X", "Y", "Z">>

Lowercase ==
    <<"a", "b", "c", "d", "e", "f", "g", "h", "i", "j", "k", "l", "m",
      "n", "o", "p", "q", "r", "s", "t", "u", "v", "w", "x", "y", "z">>

\* the character of table to that is at the place c has in table from, or c
translate(c, from, to) ==
    IF \E k \in 1..Len(from) : from[k] = c
    THEN to[CHOOSE k \in 1..Len(from) : from[k] = c]
    ELSE c

\* s.lower() on the characters of s
str_lower(s) == [i \in 1..Len(s) |-> translate(s[i], Uppercase, Lowercase)]

\* s.upper() on the characters of s
str_upper(s) == [i \in 1..Len(s) |-> translate(s[i], Lowercase, Uppercase)]

\* x in l, for a list l
list_contains(l, x) == \E i \in 1..Len(l) : l[i] = x

\* l.index(x), for x in l: the 0-based position of the first x
list_index(l, x) ==
    (CHOOSE i \in 1..Len(l) : l[i] = x /\ \A j \in 1..(i - 1) : l[j] # x) - 1

\* l[i] for -len(l) <= i < len(l): a negative index counts from the end
list_getitem(l, i) == IF i < 0 THEN l[Len(l) + i + 1] ELSE l[i + 1]

\* k in d, for a dict d given by its items
dict_contains(d, k) == \E i \in 1..Len(d) : d[i][1] = k

\* d[k], for k in d
dict_getitem(d, k) == d[CHOOSE i \in 1..Len(d) : d[i][1] = k][2]

\* the outcome of a call: the exception raised, or the value returned
Raised(type, at) == [exc |-> Raise(type, at), value |-> PyNone]

Returned(value) == [exc |-> NoExc, value |-> value]

-----------------------------------------------------------------------------
(* timeunits.py and the unit functions of cftime.py *)

\* timeunits.py: the standard unit names in order of largest to smallest
__STANDARDS__ ==
    << <<"y", "e", "a", "r", "s">>,
       <<"m", "o", "n", "t", "h", "s">>,
       <<"d", "a", "y", "s">>,
       <<"h", "o", "u", "r", "s">>,
       <<"m", "i", "n", "u", "t", "e", "s">>,
       <<"s", "e", "c", "o", "n", "d", "s">> >>

\* timeunits.py: the aliases of each standard name, as (key, value) items
timeunits__ALIASES__ ==
    << << <<"y", "e", "a", "r">>, <<"y", "e", "a", "r", "s">> >>,
       << <<"y", "r", "s">>, <<"y", "e", "a", "r", "s">> >>,
       << <<"y", "r">>, <<"y", "e", "a", "r", "s">> >>,
       << <<"m", "o", "n", "t", "h">>, <<"m", "o", "n", "t", "h", "s">> >>,
       << <<"m", "o", "n", "s">>, <<"m", "o", "n", "t", "h", "s">> >>,
       << <<"m", "o", "n">>, <<"m", "o", "n", "t", "h", "s">> >>,
       << <<"m", "o", "s">>, <<"m", "o", "n", "t", "h", "s">> >>,
       << <<"m", "o">>, <<"m", "o", "n", "t", "h", "s">> >>,
       << <<"d", "a", "y">>, <<"d", "a", "y", "s">> >>,
       << <<"d">>, <<"d", "a", "y", "s">> >>,
       << <<"h", "o", "u", "r">>, <<"h", "o", "u", "r", "s">> >>,
       << <<"h", "r", "s">>, <<"h", "o", "u", "r", "s">> >>,
       << <<"h", "r">>, <<"h", "o", "u", "r", "s">> >>,
       << <<"h">>, <<"h", "o", "u", "r", "s">> >>,
       << <<"m", "i", "n", "u", "t", "e">>, <<"m", "i", "n", "u", "t", "e", "s">> >>,
       << <<"m", "i", "n", "s">>, <<"m", "i", "n", "u", "t", "e", "s">> >>,
       << <<"m", "i", "n">>, <<"m", "i", "n", "u", "t", "e", "s">> >>,
       << <<"s", "e", "c", "o", "n", "d">>, <<"s", "e", "c", "o", "n", "d", "s">> >>,
       << <<"s", "e", "c", "s">>, <<"s", "e", "c", "o", "n", "d", "s">> >>,
       << <<"s", "e", "c">>, <<"s", "e", "c", "o", "n", "d", "s">> >>,
       << <<"s">>, <<"s", "e", "c", "o", "n", "d", "s">> >> >>

\* cftime.py: the unit of each position of a date-time tuple
__INDICES__ ==
    << <<"y", "e", "a", "r", "s">>,
       <<"m", "o", "n", "t", "h", "s">>,
       <<"d", "a", "y", "s">>,
       <<"h", "o", "u", "r", "s">>,
       <<"m", "i", "n", "u", "t", "e", "s">>,
       <<"s", "e", "c", "o", "n", "d", "s">> >>

\* cftime.py: its own copy of the alias dict
cftime__ALIASES__ ==
    << << <<"y", "e", "a", "r">>, <<"y", "e", "a", "r", "s">> >>,
       << <<"y", "r", "s">>, <<"y", "e", "a", "r", "s">> >>,
       << <<"y", "r">>, <<"y", "e", "a", "r", "s">> >>,
       << <<"m", "o", "n", "t", "h">>, <<"m", "o", "n", "t", "h", "s">> >>,
       << <<"m", "o", "n", "s">>, <<"m", "o", "n", "t", "h", "s">> >>,
       << <<"m", "o", "n">>, <<"m", "o", "n", "t", "h", "s">> >>,
       << <<"m", "o", "s">>, <<"m", "o", "n", "t", "h", "s">> >>,
       << <<"m", "o">>, <<"m", "o", "n", "t", "h", "s">> >>,
       << <<"d", "a", "y">>, <<"d", "a", "y", "s">> >>,
       << <<"d">>, <<"d", "a", "y", "s">> >>,
       << <<"h", "o", "u", "r">>, <<"h", "o", "u", "r", "s">> >>,
       << <<"h", "r", "s">>, <<"h", "o", "u", "r", "s">> >>,
       << <<"h", "r">>, <<"h", "o", "u", "r", "s">> >>,
       << <<"h">>, <<"h", "o", "u", "r", "s">> >>,
       << <<"m", "i", "n", "u", "t", "e">>, <<"m", "i", "n", "u", "t", "e", "s">> >>,
       << <<"m", "i", "n", "s">>, <<"m", "i", "n", "u", "t", "e", "s">> >>,
       << <<"m", "i", "n">>, <<"m", "i", "n", "u", "t", "e", "s">> >>,
       << <<"s", "e", "c", "o", "n", "d">>, <<"s", "e", "c", "o", "n", "d", "s">> >>,
       << <<"s", "e", "c", "s">>, <<"s", "e", "c", "o", "n", "d", "s">> >>,
       << <<"s", "e", "c">>, <<"s", "e", "c", "o", "n", "d", "s">> >>,
       << <<"s">>, <<"s", "e", "c", "o", "n", "d", "s">> >> >>


\* find_unit without the lower-casing of line 57
find_unit_as_given(ualias) ==
    IF ~isinstance(ualias, {"str"})
    THEN Raised("TypeError", "find_unit")
    ELSE IF list_contains(__STANDARDS__, ualias.s)
    THEN Returned(PyStr(ualias.s))
    ELSE IF dict_contains(timeunits__ALIASES__, ualias.s)
    THEN Returned(PyStr(dict_getitem(timeunits__ALIASES__, ualias.s)))
    ELSE Raised("ValueError", "find_unit")

\* timeunits.find_unit(ualias)
find_unit(ualias) ==
    IF ~isinstance(ualias, {"str"})
    THEN Raised("TypeError", "find_unit")
    ELSE LET lualias == str_lower(ualias.s)
         IN  IF list_contains(__STANDARDS__, lualias)
             THEN Returned(PyStr(lualias))
             ELSE IF dict_contains(timeunits__ALIASES__, lualias)
             THEN Returned(PyStr(dict_getitem(timeunits__ALIASES__, lualias)))
             ELSE Raised("ValueError", "find_unit")

\* cftime.alias_to_unit(ualias)
alias_to_unit(ualias) ==
    IF ~isinstance(ualias, {"str"})
    THEN Raised("TypeError", "alias_to_unit")
    ELSE IF list_contains(__INDICES__, ualias.s)
    THEN Returned(ualias)
    ELSE IF dict_contains(cftime__ALIASES__, ualias.s)
    THEN Returned(PyStr(dict_getitem(cftime__ALIASES__, ualias.s)))
    ELSE Raised("ValueError", "alias_to_unit")

\* cftime.__unit_to_index__(ualias)
__unit_to_index__(ualias) ==
    IF ~isinstance(ualias, {"str"})
    THEN Raised("TypeError", "__unit_to_index__")
    ELSE LET unit == alias_to_unit(ualias)
         IN  IF unit.exc # NoExc
             THEN unit
             ELSE Returned(PyInt(list_index(__INDICES__, unit.value.s)))

\* __index_to_unit__ with the bounds check of line 113 on the upper side
\* only, so that a negative index reaches the list
index_to_unit_unchecked_below(index) ==
    IF ~isinstance(index, {"int", "long"})
    THEN Raised("TypeError", "__index_to_unit__")
    ELSE IF index.n >= Len(__INDICES__) \/ index.n < -Len(__INDICES__)
    THEN Raised("IndexError", "__index_to_unit__")
    ELSE Returned(PyStr(list_getitem(__INDICES__, index.n)))

\* cftime.__index_to_unit__(index)
__index_to_unit__(index) ==
    IF ~isinstance(index, {"int", "long"})
    THEN Raised("TypeError", "__index_to_unit__")
    ELSE IF index.n < 0 \/ index.n >= Len(__INDICES__)
    THEN Raised("IndexError", "__index_to_unit__")
    ELSE Returned(PyStr(list_getitem(__INDICES__, index.n)))

NoUnitCall == [fn |-> "", arg |-> PyNone, exc |-> NoExc, value |-> PyNone]

UnitCall(fn, arg, r) == [fn |-> fn, arg |-> arg, exc |-> r.exc, value |-> r.value]

\* timeunits.find_unit(arg)
FindUnit(arg) ==
    /\ ucall' = UnitCall("find_unit", arg, find_unit(arg))
    /\ UNCHANGED <<calvars, deltavars, sharedvars, keepervars>>

\* cftime.alias_to_unit(arg)
AliasToUnit(arg) ==
    /\ ucall' = UnitCall("alias_to_unit", arg, alias_to_unit(arg))
    /\ UNCHANGED <<calvars, deltavars, sharedvars, keepervars>>

\* cftime.__unit_to_index__(arg)
UnitToIndex(arg) ==
    /\ ucall' = UnitCall("__unit_to_index__", arg, __unit_to_index__(arg))
    /\ UNCHANGED <<calvars, deltavars, sharedvars, keepervars>>

\* cftime.__index_to_unit__(arg)
IndexToUnit(arg) ==
    /\ ucall' = UnitCall("__index_to_unit__", arg, __index_to_unit__(arg))
    /\ UNCHANGED <<calvars, deltavars, sharedvars, keepervars>>

-----------------------------------------------------------------------------
(* cftime.py: CFDateTimeDelta *)

\* a CFDateTimeDelta object: items is its _dttuple
PyDelta(_dttuple) == [kind |-> "delta", n |-> 0, s |-> <<>>, items |-> _dttuple]

\* the value a binary method returns for an operand it does not support
NotImplemented == [kind |-> "NotImplementedType", n |-> 0, s |-> <<>>, items |-> <<>>]

\* a number with the value n, of the type that arithmetic on x and y gives
Number(x, y, n) ==
    IF "float" \in {x.kind, y.kind} THEN PyFloat(n)
    ELSE IF "long" \in {x.kind, y.kind} THEN PyLong(n)
    ELSE PyInt(n)

\* -x, x + y and x - y on numbers
num_neg(x) == Number(x, x, -x.n)

num_add(x, y) == Number(x, y, x.n + y.n)

num_sub(x, y) == Number(x, y, x.n - y.n)

\* hasattr(arg, '__len__')
has_len(arg) == arg.kind \in {"list", "tuple", "str"}

\* the elements of a sequence object: the characters of a str are strings
elements(arg) ==
    IF arg.kind = "str"
    THEN [i \in 1..Len(arg.s) |-> PyStr(<<arg.s[i]>>)]
    ELSE arg.items

\* cftime.__is_dttuple__(arg)
__is_dttuple__(arg) ==
    IF ~has_len(arg) THEN FALSE
    ELSE IF Len(elements(arg)) # Len(__INDICES__) THEN FALSE
    ELSE IF ~\A i \in 1..(Len(elements(arg)) - 1) :
                 isinstance(elements(arg)[i], {"int", "long"})
    THEN FALSE
    ELSE IF ~isinstance(elements(arg)[Len(elements(arg))], {"int", "long", "float"})
    THEN FALSE
    ELSE TRUE

\* the loop over kwargs.items() in CFDateTimeDelta.__init__ (lines 195-197):
\* kwargs is the sequence of the (ualias, uvalue) items, in iteration order
RECURSIVE set_keywords(_, _)
set_keywords(dtlist, kwargs) ==
    IF kwargs = <<>> THEN [exc |-> NoExc, dtlist |-> dtlist]
    ELSE LET ualias == Head(kwargs)[1]
             uvalue == Head(kwargs)[2]
             uindex == __unit_to_index__(ualias)
         IN  IF uindex.exc # NoExc
             THEN [exc |-> uindex.exc, dtlist |-> dtlist]
             ELSE IF dtlist.kind = "tuple"
             THEN [exc |-> Raise("TypeError", "CFDateTimeDelta.__init__"),
                   dtlist |-> dtlist]
             ELSE set_keywords(
                      [dtlist EXCEPT !.items[uindex.value.n + 1] = uvalue],
                      Tail(kwargs))

\* CFDateTimeDelta(*params, **kwargs): the exception or the new object, and
\* the objects of params as the constructor leaves them
CFDateTimeDelta(params, kwargs) ==
    LET zeros == PyList([i \in 1..Len(__INDICES__) |-> PyInt(0)])
        whole == __is_dttuple__(PyTuple(params))
        single == ~whole /\ Len(params) = 1 /\ __is_dttuple__(params[1])
        dtlist == IF whole THEN PyTuple(params)
                  ELSE IF single THEN params[1]
                  ELSE zeros
        set == set_keywords(dtlist, kwargs)
        after == IF single THEN <<set.dtlist>> ELSE params
    IN  IF set.exc # NoExc
        THEN [exc |-> set.exc, value |-> PyNone, params |-> after]
        ELSE IF ~__is_dttuple__(set.dtlist)
        THEN [exc |-> Raise("ValueError", "CFDateTimeDelta.__init__"),
              value |-> PyNone, params |-> after]
        ELSE [exc |-> NoExc, value |-> PyDelta(set.dtlist.items), params |-> after]

\* the outcome of a constructor call as the outcome of the method calling it
Constructed(r) == [exc |-> r.exc, value |-> r.value]

\* CFDateTimeDelta.__pos__
__pos__(self) == Constructed(CFDateTimeDelta(<<PyTuple(self.items)>>, <<>>))

\* __neg__ without the minus sign of line 221
neg_as_pos(self) ==
    Constructed(CFDateTimeDelta(<<PyList(self.items)>>, <<>>))

\* CFDateTimeDelta.__neg__
__neg__(self) ==
    LET neg_dttuple == [i \in 1..Len(self.items) |-> num_neg(self.items[i])]
    IN  Constructed(CFDateTimeDelta(<<PyList(neg_dttuple)>>, <<>>))

\* __add__ with the first pair of zip dropped from the sum
add_from_second(self, other) ==
    IF isinstance(other, {"delta"})
    THEN LET add_dttuple ==
                 [i \in 1..Len(self.items) |->
                     IF i = 1 THEN self.items[i]
                     ELSE num_add(self.items[i], other.items[i])]
         IN  Constructed(CFDateTimeDelta(<<PyList(add_dttuple)>>, <<>>))
    ELSE Returned(NotImplemented)

\* CFDateTimeDelta.__add__
__add__(self, other) ==
    IF isinstance(other, {"delta"})
    THEN LET add_dttuple ==
                 [i \in 1..Len(self.items) |->
                     num_add(self.items[i], other.items[i])]
         IN  Constructed(CFDateTimeDelta(<<PyList(add_dttuple)>>, <<>>))
    ELSE Returned(NotImplemented)

\* other == 0, for an operand of any type: an object that is not a number
\* compares unequal to 0
equals_zero(other) == other.kind \in {"int", "long", "float"} /\ other.n = 0

\* CFDateTimeDelta.__radd__
__radd__(self, other) ==
    IF equals_zero(other)
    THEN LET new_dttuple == PyTuple(self.items)
         IN  Constructed(CFDateTimeDelta(<<new_dttuple>>, <<>>))
    ELSE __add__(self, other)

\* CFDateTimeDelta.__sub__
__sub__(self, other) ==
    IF isinstance(other, {"delta"})
    THEN LET sub_dttuple ==
                 [i \in 1..Len(self.items) |->
                     num_sub(self.items[i], other.items[i])]
         IN  Constructed(CFDateTimeDelta(<<PyList(sub_dttuple)>>, <<>>))
    ELSE Returned(NotImplemented)

\* the expression a + b, with at least one CFDateTimeDelta among a and b: the
\* left operand's __add__ is tried, then the right operand's __radd__, and
\* the interpreter raises TypeError when neither supports the other
binary_add(a, b) ==
    LET left == IF a.kind = "delta" THEN __add__(a, b) ELSE Returned(NotImplemented)
        right == IF b.kind = "delta" /\ a.kind # "delta" THEN __radd__(b, a)
                 ELSE Returned(NotImplemented)
    IN  IF left.value # NotImplemented \/ left.exc # NoExc THEN left
        ELSE IF right.value # NotImplemented \/ right.exc # NoExc THEN right
        ELSE Raised("TypeError", "+")

\* the expression a - b, with a a CFDateTimeDelta (the class has no __rsub__)
binary_sub(a, b) ==
    LET left == __sub__(a, b)
    IN  IF left.value # NotImplemented \/ left.exc # NoExc THEN left
        ELSE Raised("TypeError", "-")

\* the built-in sum(items), which folds + over items from the int 0
RECURSIVE sum_from(_, _)
sum_from(result, items) ==
    IF items = <<>> THEN Returned(result)
    ELSE LET next == binary_add(result, Head(items))
         IN  IF next.exc # NoExc THEN next
             ELSE sum_from(next.value, Tail(items))

NoDeltaCall ==
    [op |-> "", args |-> <<>>, kwargs |-> <<>>, exc |-> NoExc, value |-> PyNone]

\* the objects after a call that returned value: a new object that the
\* client keeps is one more
Allocated(value, keep) ==
    IF keep /\ value.kind = "delta" THEN Append(objs, value) ELSE objs

\* the call op on args, with outcome r: only the constructor can change an
\* object it is given
DeltaCall(op, args, kwargs, r, keep) ==
    /\ dcall' = [op |-> op, args |-> args, kwargs |-> kwargs,
                 exc |-> r.exc, value |-> r.value]
    /\ passed' = IF op = "CFDateTimeDelta" THEN r.params ELSE args
    /\ objs' = Allocated(r.value, keep)
    /\ UNCHANGED <<inplace, calvars, unitvars, sharedvars, keepervars>>

\* CFDateTimeDelta(*params, **kwargs)
New(params, kwargs) ==
    DeltaCall("CFDateTimeDelta", params, kwargs,
              CFDateTimeDelta(params, kwargs), TRUE)

\* +a
Pos(a) == DeltaCall("+a", <<a>>, <<>>, __pos__(a), TRUE)

\* -a
Neg(a) == DeltaCall("-a", <<a>>, <<>>, __neg__(a), TRUE)

\* a + b
Add(a, b) == DeltaCall("a+b", <<a, b>>, <<>>, binary_add(a, b), TRUE)

\* a - b
Sub(a, b) == DeltaCall("a-b", <<a, b>>, <<>>, binary_sub(a, b), TRUE)

\* sum(items), the total being looked at and dropped
Sum(items) == DeltaCall("sum", items, <<>>, sum_from(PyInt(0), items), FALSE)

\* the outcome of an in-place method: what it returns, and self as it leaves it
Assigned(value, self) == [exc |-> NoExc, value |-> value, self |-> self]

\* __iadd__ with the new tuple lacking the sum of the first pair
iadd_from_second(self, other) ==
    IF isinstance(other, {"delta"})
    THEN LET new_self ==
                 [self EXCEPT !.items =
                     [i \in 1..Len(self.items) |->
                         IF i = 1 THEN self.items[i]
                         ELSE num_add(self.items[i], other.items[i])]]
         IN  Assigned(new_self, new_self)
    ELSE Assigned(NotImplemented, self)

\* CFDateTimeDelta.__iadd__: self._dttuple is bound to a new tuple
__iadd__(self, other) ==
    IF isinstance(other, {"delta"})
    THEN LET new_self ==
                 [self EXCEPT !.items =
                     [i \in 1..Len(self.items) |->
                         num_add(self.items[i], other.items[i])]]
         IN  Assigned(new_self, new_self)
    ELSE Assigned(NotImplemented, self)

\* CFDateTimeDelta.__isub__
__isub__(self, other) ==
    IF isinstance(other, {"delta"})
    THEN LET new_self ==
                 [self EXCEPT !.items =
                     [i \in 1..Len(self.items) |->
                         num_sub(self.items[i], other.items[i])]]
         IN  Assigned(new_self, new_self)
    ELSE Assigned(NotImplemented, self)

\* the statement a += b, with a a CFDateTimeDelta: when __iadd__ does not
\* support b, the interpreter evaluates a + b instead
inplace_add(a, b) ==
    LET r == __iadd__(a, b)
        sum_ab == binary_add(a, b)
    IN  IF r.value # NotImplemented THEN r
        ELSE [exc |-> sum_ab.exc, value |-> sum_ab.value, self |-> r.self]

\* the statement a -= b, with a a CFDateTimeDelta
inplace_sub(a, b) ==
    LET r == __isub__(a, b)
        difference == binary_sub(a, b)
    IN  IF r.value # NotImplemented THEN r
        ELSE [exc |-> difference.exc, value |-> difference.value, self |-> r.self]

\* the new tuple written into a tuple shared with the copies of the object
stored_in_copies(i, self) ==
    [k \in 1..Len(objs) |-> IF objs[k] = objs[i] THEN self ELSE objs[k]]

\* self._dttuple = ... : the object at position i of objs becomes self
Stored(i, self) == [objs EXCEPT ![i] = self]

\* the in-place operation op on the object at position i of objs and on b
InPlaceCall(op, i, b, r) ==
    /\ dcall' = [op |-> op, args |-> <<objs[i], b>>, kwargs |-> <<>>,
                 exc |-> r.exc, value |-> r.value]
    /\ passed' = <<r.self, IF b = objs[i] THEN r.self ELSE b>>
    /\ objs' = Stored(i, r.self)
    /\ inplace' = [n |-> inplace.n + 1, self |-> i]
    /\ UNCHANGED <<calvars, unitvars, sharedvars, keepervars>>

\* a += b, a being the object at position i of objs
IAdd(i, b) == InPlaceCall("a+=b", i, b, inplace_add(objs[i], b))

\* a -= b
ISub(i, b) == InPlaceCall("a-=b", i, b, inplace_sub(objs[i], b))

-----------------------------------------------------------------------------
(* timekeeper.py: TimeKeeper.  A dictionary is a function on its keys, a    *)
(* timer name is a string, and a time is a whole number of clock ticks.     *)
(* self is the record of the three attributes, now is what self._time()    *)
(* returns during the call.                                                 *)

EmptyDict == [k \in {} |-> 0]

\* d[k] = v
SetItem(d, k, v) == [j \in DOMAIN d \cup {k} |-> IF j = k THEN v ELSE d[j]]

\* name in list
InList(name, list) == \E i \in 1..Len(list) : list[i] = name

\* TimeKeeper.__init__
TimeKeeper_init ==
    [_start_times |-> EmptyDict, _accumulated_times |-> EmptyDict,
     _added_order |-> <<>>]

\* reset without the test that the name is new to _added_order
reset_appending(self, name, now) ==
    [_added_order |-> Append(self._added_order, name),
     _accumulated_times |-> SetItem(self._accumulated_times, name, 0),
     _start_times |-> SetItem(self._start_times, name, now)]

\* TimeKeeper.reset
reset(self, name, now) ==
    [_added_order |-> IF ~InList(name, self._added_order)
                      THEN Append(self._added_order, name)
                      ELSE self._added_order,
     _accumulated_times |-> SetItem(self._accumulated_times, name, 0),
     _start_times |-> SetItem(self._start_times, name, now)]

\* TimeKeeper.start
start(self, name, now) ==
    IF name \notin DOMAIN self._accumulated_times
    THEN reset(self, name, now)
    ELSE [self EXCEPT !._start_times = SetItem(@, name, now)]

\* stop that starts the timer again at the time it adds up to
stop_restarting(self, name, now) ==
    IF name \notin DOMAIN self._accumulated_times
    THEN reset(self, name, now)
    ELSE [self EXCEPT
            !._accumulated_times =
                SetItem(@, name, @[name] + (now - self._start_times[name])),
            !._start_times = SetItem(@, name, now)]

\* TimeKeeper.stop
stop(self, name, now) ==
    IF name \notin DOMAIN self._accumulated_times
    THEN reset(self, name, now)
    ELSE [self EXCEPT
            !._accumulated_times =
                SetItem(@, name, @[name] + (now - self._start_times[name]))]

\* TimeKeeper.get_time: the object after the call and the value returned
get_time(self, name, now) ==
    LET after == IF name \notin DOMAIN self._accumulated_times
                 THEN reset(self, name, now)
                 ELSE self
    IN  [self |-> after, value |-> after._accumulated_times[name]]

\* TimeKeeper.get_order
get_order(self) == self._added_order

\* TimeKeeper.get_all_times
get_all_times(self) == self._accumulated_times

\* the TimeKeeper object of the client
Keeper ==
    [_start_times |-> _start_times, _accumulated_times |-> _accumulated_times,
     _added_order |-> _added_order]

NoKeeperCall == [n |-> 0, op |-> "", name |-> "", time |-> 0, order |-> <<>>]

NoHistory == [used |-> <<>>, reset_at |-> EmptyDict, marked_at |-> EmptyDict]

\* keeper = TimeKeeper(time), time being a function that returns the clock
KeeperInit ==
    /\ _start_times = TimeKeeper_init._start_times
    /\ _accumulated_times = TimeKeeper_init._accumulated_times
    /\ _added_order = TimeKeeper_init._added_order
    /\ clock = 0
    /\ kcall = NoKeeperCall
    /\ history = NoHistory

\* the history after the call op(name): a first use creates the timer, which
\* counts as its reset; reset and start mark the time the next stop counts from
Called(op, name) ==
    LET new == ~InList(name, history.used)
    IN  [used |-> IF new THEN Append(history.used, name) ELSE history.used,
         reset_at |-> IF new \/ op = "reset"
                      THEN SetItem(history.reset_at, name, clock)
                      ELSE history.reset_at,
         marked_at |-> IF new \/ op \in {"reset", "start"}
                       THEN SetItem(history.marked_at, name, clock)
                       ELSE history.marked_at]

\* a call keeper.op(name) that leaves the object after and returns time
KeeperCall(op, name, after, time) ==
    /\ kcall.n < MaxCalls
    /\ _start_times' = after._start_times
    /\ _accumulated_times' = after._accumulated_times
    /\ _added_order' = after._added_order
    /\ kcall' = [n |-> kcall.n + 1, op |-> op, name |-> name, time |-> time,
                 order |-> <<>>]
    /\ history' = Called(op, name)
    /\ UNCHANGED <<clock, calvars, unitvars, deltavars, sharedvars>>

\* keeper.reset(name)
Reset(name) == KeeperCall("reset", name, reset(Keeper, name, clock), 0)

\* keeper.start(name)
Start(name) == KeeperCall("start", name, start(Keeper, name, clock), 0)

\* keeper.stop(name)
Stop(name) == KeeperCall("stop", name, stop(Keeper, name, clock), 0)

\* keeper.get_time(name)
GetTime(name) ==
    KeeperCall("get_time", name, get_time(Keeper, name, clock).self,
               get_time(Keeper, name, clock).value)

\* keeper.get_order()
GetOrder ==
    /\ kcall.n < MaxCalls
    /\ kcall' = [n |-> kcall.n + 1, op |-> "get_order", name |-> "",
                 time |-> 0, order |-> get_order(Keeper)]
    /\ UNCHANGED <<_start_times, _accumulated_times, _added_order, clock,
                   history, calvars, unitvars, deltavars, sharedvars>>

\* the clock moves on between two calls
Tick ==
    /\ clock < MaxClock
    /\ clock' = clock + 1
    /\ UNCHANGED <<_start_times, _accumulated_times, _added_order, kcall,
                   history, calvars, unitvars, deltavars, sharedvars>>

-----------------------------------------------------------------------------
(* Specifications *)

Init ==
    /\ cal = NoCalendar
    /\ created = NoCall
    /\ query = NoQuery
    /\ calendar = ""
    /\ raw = NoTuple
    /\ dttuple = NoTuple
    /\ loc = NoTuple
    /\ pc = "idle"
    /\ exc = NoExc
    /\ ucall = NoUnitCall
    /\ objs = <<>>
    /\ dcall = NoDeltaCall
    /\ passed = <<>>
    /\ inplace = [n |-> 0, self |-> 0]
    /\ concurrent = NoConcurrent
    /\ KeeperInit

QueryYears == {-4, 0, 4, 1580, 1582, 1600, 1900, 1992, 2000, 2020, 2021}

QueryMonths == {0, 1, 2, 12, 13}

CalNames == RecognizedNames \cup {UserName}

CalMonthLengths ==
    {None, Some(Gregorian), Some(Thirties), Some(TestLengths), Some(Eleven)}

CalLeapYears == {None, Some(0), Some(4), Some(1992)}

CalLeapMonths == {None, Some(0), Some(1), Some(2), Some(13)}

OptionalQueryYears == {None} \cup {Some(y) : y \in QueryYears}

CalNext ==
    \/ /\ created = NoCall
       /\ \E name \in CalNames, ml \in CalMonthLengths, ly \in CalLeapYears,
             lm \in CalLeapMonths : CreateCalendar(name, ml, ly, lm)
    \/ \E year \in QueryYears : IsLeapYear(year)
    \/ \E month \in QueryMonths, year \in OptionalQueryYears : DaysInMonth(month, year)
    \/ \E year \in OptionalQueryYears : DaysInYear(year)

CalSpec == Init /\ [][CalNext]_vars

RawYears == {0, 2020, 2021}

RawMonths == {0, 1, 2, 12, 13}

RawDays == {-31, 0, 1, 29, 30, 32, MaxDay}

RawHours == {-1, 0, 24}

RawMinutes == {-1, 0, 60}

RawSeconds == {-1, 0, 60}

RawZones == {0, -7}

RawTuples ==
    [year : RawYears, month : RawMonths, day : RawDays, hour : RawHours,
     minute : RawMinutes, second : RawSeconds, zone : RawZones]

CalendarArguments == {Instance, "standard"}

NormMonthLengths == {Some(Gregorian), Some(Zeros)}

NormLeap == {<<None, None>>, <<Some(2020), Some(2)>>}

Next ==
    \/ /\ created = NoCall
       /\ \E ml \in NormMonthLengths, leap \in NormLeap :
             CreateCalendar(UserName, ml, leap[1], leap[2])
    \/ /\ pc = "idle"
       /\ \E c \in CalendarArguments, t \in RawTuples : DateTimeInit(c, t)
    \/ SecondCarry
    \/ SecondBorrow
    \/ MinuteCarry
    \/ MinuteBorrow
    \/ HourCarry
    \/ HourBorrow
    \/ DayCarry
    \/ DayBorrow

Spec == Init /\ [][Next]_vars

\* the unit functions of timeunits.py and cftime.py, called with any argument
UnitNames ==
    {__STANDARDS__[i] : i \in 1..Len(__STANDARDS__)}
        \cup {timeunits__ALIASES__[i][1] : i \in 1..Len(timeunits__ALIASES__)}
        \cup {cftime__ALIASES__[i][1] : i \in 1..Len(cftime__ALIASES__)}

\* s with its first letter in upper case
Capitalized(s) ==
    [i \in 1..Len(s) |-> IF i = 1 THEN translate(s[i], Lowercase, Uppercase) ELSE s[i]]

\* bad_names of timeunitsTests.py, and the empty string
BadNames ==
    {<<"s", "e", "c", "o", "n", "d", "i">>, <<"y">>, <<"x">>, <<"3", "2", "h">>, <<>>}

\* bad_types of timeunitsTests.py (1.23 as a float of integral value), and None
BadTypes ==
    {PyInt(1), PyFloat(1), PyList(<<PyInt(1)>>), PyTuple(<<PyInt(5), PyInt(3)>>), PyNone}

UnitArguments ==
    {PyStr(s) : s \in UnitNames}
        \cup {PyStr(str_upper(s)) : s \in UnitNames}
        \cup {PyStr(Capitalized(s)) : s \in UnitNames}
        \cup {PyStr(s) : s \in BadNames}
        \cup BadTypes

\* the largest index asked for, on either side of 0
MaxIndex == 8

IndexArguments ==
    {PyInt(i) : i \in -MaxIndex..MaxIndex}
        \cup {PyLong(2), PyLong(-1), PyFloat(1), PyStr(__INDICES__[1]), PyNone}

UnitNext ==
    \/ \E arg \in UnitArguments : FindUnit(arg)
    \/ \E arg \in UnitArguments : AliasToUnit(arg)
    \/ \E arg \in UnitArguments : UnitToIndex(arg)
    \/ \E arg \in IndexArguments : IndexToUnit(arg)

UnitSpec == Init /\ [][UnitNext]_vars

\* CFDateTimeDelta objects the client keeps: those made by the constructor
\* and by the operators
MaxObjects == 3

\* the longest list given to sum
MaxSumLen == 3

Constant(n) == [i \in 1..6 |-> PyInt(n)]

\* the constructor's (params, kwargs): the lists of cftimeTests.py, six
\* values with a long and a float, and three values with a keyword
DeltaArguments ==
    {<< <<PyList(Constant(3))>>, <<>> >>,
     << <<PyList(Constant(2))>>, <<>> >>,
     << <<PyInt(-1), PyLong(2), PyInt(0), PyInt(14), PyInt(0), PyFloat(-70)>>, <<>> >>,
     << <<PyInt(1), PyInt(2), PyInt(3)>>, << <<PyStr(<<"h", "r", "s">>), PyInt(7)>> >> >>}

\* the operands of + and -: the objects, and two ints
Operands == {objs[i] : i \in 1..Len(objs)} \cup {PyInt(0), PyInt(1)}

Deltas == {objs[i] : i \in 1..Len(objs)}

\* the lists given to sum: the first j objects, j = 0 for the empty list
SumLists ==
    {SubSeq(objs, 1, j) : j \in {k \in 0..Len(objs) : k <= MaxSumLen}}

DeltaNext ==
    \/ /\ Len(objs) < MaxObjects
       /\ \/ \E args \in DeltaArguments : New(args[1], args[2])
          \/ \E a \in Deltas : Pos(a)
          \/ \E a \in Deltas : Neg(a)
          \/ \E a \in Operands, b \in Operands :
                 ("delta" \in {a.kind, b.kind}) /\ Add(a, b)
          \/ \E a \in Deltas, b \in Operands : Sub(a, b)
    \/ \E items \in SumLists : Sum(items)

DeltaSpec == Init /\ [][DeltaNext]_vars

\* the constructor, copies by +a, and += and -= on the objects and an int:
\* MaxObjects operations at most
InPlaceNext ==
    /\ Len(objs) + inplace.n < MaxObjects
    /\ \/ \E args \in DeltaArguments : New(args[1], args[2])
       \/ \E a \in Deltas : Pos(a)
       \/ \E i \in 1..Len(objs), b \in Operands : IAdd(i, b)
       \/ \E i \in 1..Len(objs), b \in Operands : ISub(i, b)

InPlaceSpec == Init /\ [][InPlaceNext]_vars

\* params of testIsDTTuple and testInitCFDateTimeDelta* of cftimeTests.py,
\* given as separate values, as one tuple and as one list
Sextuples ==
    {<<PyInt(1), PyInt(2), PyInt(3), PyInt(4), PyInt(5), PyInt(6)>>,
     <<PyInt(1), PyLong(2), PyInt(3), PyInt(4), PyInt(5), PyFloat(6)>>,
     <<PyInt(1), PyInt(2), PyInt(3), PyInt(4), PyStr(<<"a">>), PyLong(0)>>,
     <<PyInt(1), PyInt(2), PyFloat(3), PyInt(4), PyInt(5), PyInt(6)>>,
     <<PyInt(1), PyInt(2), PyInt(3), PyInt(4), PyInt(5), PyStr(<<"6">>)>>,
     <<PyInt(1), PyInt(2), PyInt(3)>>,
     <<PyInt(1), PyInt(2), PyInt(3), PyInt(4)>>,
     <<PyInt(1), PyInt(2), PyInt(3), PyInt(4), PyInt(5), PyInt(6), PyInt(7)>>}

NewParams ==
    Sextuples
        \cup {<<PyTuple(t)>> : t \in Sextuples}
        \cup {<<PyList(t)>> : t \in Sextuples}
        \cup {<<>>, <<PyStr(<<"1", "2", "3", "4", "5", "6">>)>>, <<PyInt(5)>>}

\* the keyword arguments, as items in the order the dict yields them
NewKeywords ==
    {<<>>,
     << <<PyStr(__INDICES__[1]), PyInt(9)>> >>,
     << <<PyStr(<<"h", "r", "s">>), PyInt(-2)>> >>,
     << <<PyStr(__INDICES__[6]), PyFloat(7)>> >>,
     << <<PyStr(<<"f", "o", "o">>), PyInt(1)>> >>,
     << <<PyStr(__INDICES__[1]), PyStr(<<"a">>)>> >>,
     << <<PyStr(__INDICES__[4]), PyInt(2)>>, <<PyStr(<<"f", "o", "o">>), PyInt(1)>> >>,
     << <<PyStr(__INDICES__[1]), PyInt(9)>>, <<PyStr(<<"y", "r">>), PyInt(3)>> >>,
     << <<PyStr(<<"y", "r">>), PyInt(3)>>, <<PyStr(__INDICES__[1]), PyInt(9)>> >>}

\* one call of the constructor
NewNext ==
    /\ dcall = NoDeltaCall
    /\ \E params \in NewParams, kwargs \in NewKeywords : New(params, kwargs)

NewSpec == Init /\ [][NewNext]_vars

\* the raw tuples of the two constructions that share the calendar: between
\* them they enter every loop, cross a leap day and raise
SharedTuples ==
    {[year |-> 2020, month |-> 2, day |-> 29, hour |-> 23, minute |-> 59,
      second |-> 60, zone |-> 0],
     [year |-> 2020, month |-> 3, day |-> 1, hour |-> 0, minute |-> 0,
      second |-> -1, zone |-> -7],
     [year |-> 2021, month |-> 2, day |-> 29, hour |-> 24, minute |-> 0,
      second |-> 0, zone |-> 0],
     [year |-> 2020, month |-> 12, day |-> MaxDay, hour |-> 0, minute |-> 60,
      second |-> 0, zone |-> 0],
     [year |-> 2020, month |-> 1, day |-> 0, hour |-> 0, minute |-> 0,
      second |-> 0, zone |-> 0],
     [year |-> 2021, month |-> 13, day |-> 1, hour |-> 0, minute |-> 0,
      second |-> 0, zone |-> 0]}

SharedQueryYears == {2020, 2021}

\* two DateTime constructions and the calendar queries, in any interleaving,
\* on one Calendar object
SharedNext ==
    \/ /\ created = NoCall
       /\ \E leap \in NormLeap :
             CreateCalendar(UserName, Some(Gregorian), leap[1], leap[2])
    \/ \E t \in SharedTuples : DateTimeInit(Instance, t)
    \/ SecondCarry
    \/ SecondBorrow
    \/ MinuteCarry
    \/ MinuteBorrow
    \/ HourCarry
    \/ HourBorrow
    \/ DayCarry
    \/ DayBorrow
    \/ \E t \in SharedTuples : ConcurrentInit(t)
    \/ ConcurrentPass
    \/ \E year \in SharedQueryYears : IsLeapYear(year)
    \/ \E year \in SharedQueryYears : DaysInMonth(2, Some(year))
    \/ \E year \in SharedQueryYears : DaysInYear(Some(year))

SharedSpec == Init /\ [][SharedNext]_vars

TimerNames == {"a", "b"}

KeeperNext ==
    \/ \E name \in TimerNames : Reset(name)
    \/ \E name \in TimerNames : Start(name)
    \/ \E name \in TimerNames : Stop(name)
    \/ \E name \in TimerNames : GetTime(name)
    \/ GetOrder
    \/ Tick

KeeperSpec == Init /\ [][KeeperNext]_vars

-----------------------------------------------------------------------------
(* Properties of DateTime construction, under Spec *)

\* the Calendar object the DateTime under construction is bound to
Bound == BindCalendar(calendar).obj

\* the range conditions of a normalized tuple t under calendar c
Normalized(c, t) ==
    /\ t.month \in 1..12
    /\ 1 <= t.day
    /\ t.day <= days_in_month(c, t.month, Some(t.year)).value
    /\ t.hour \in 0..23
    /\ t.minute \in 0..59
    /\ t.second \in 0..59

\* C1: whenever DateTime construction returns, the stored tuple has
\* 1 <= month <= 12 and 1 <= day <= days_in_month(month, year) under the
\* bound calendar.
C1_DateInRange ==
    pc = "done" =>
        /\ dttuple.month \in 1..12
        /\ 1 <= dttuple.day
        /\ dttuple.day <= days_in_month(Bound, dttuple.month, Some(dttuple.year)).value

\* a construction that returned after borrowing days from an earlier month
C1_Witness ==
    /\ pc = "done"
    /\ raw.day < 1
    /\ dttuple.month < raw.month
    /\ dttuple.day >= 1

\* C2: whenever DateTime construction returns, the stored time of day has
\* 0 <= hour < 24, 0 <= minute < 60 and 0 <= second < 60, negative raw hours,
\* minutes and seconds included.
C2_TimeInRange ==
    pc = "done" =>
        /\ dttuple.hour \in 0..23
        /\ dttuple.minute \in 0..59
        /\ dttuple.second \in 0..59

\* the years that decide days_in_month: year 0 and every residue modulo 4
LeapCases == {None, Some(0), Some(1), Some(2), Some(3), Some(4)}

\* no month of calendar c has a day in any year: a pass through the body of
\* the day-carry loop then subtracts nothing from day
NeverShrinks(c) ==
    \A m \in 1..12, y \in LeapCases : days_in_month(c, m, y).value <= 0

\* control is inside the day-carry loop, whose condition day > days_in_month
\* no later pass can make false
Diverging ==
    /\ pc = "day_carry"
    /\ loc.day >= 1
    /\ NeverShrinks(Bound)

\* C3: normalization terminates for every integer input under every calendar
\* the factory returns: control is never inside a loop that cannot be left.
C3_LoopsAreLeft == ~Diverging

\* once control is in such a loop it stays there, as far as the model follows
DivergingForever == [][Diverging => Diverging']_vars

\* C4: normalization of a well-typed tuple never ends in an error: a
\* construction on a Calendar object does not raise.
C4_NeverRaises == ~(calendar = Instance /\ pc = "raised")

\* C5: normalizing a tuple that satisfies the range conditions under the
\* calendar returns the identical tuple.
C5_Idempotent ==
    (calendar = Instance /\ pc # "idle" /\ Normalized(cal, raw)) =>
        (pc = "done" /\ dttuple = raw)

\* a construction from a normalized tuple on the last day of a month
C5_Witness ==
    /\ calendar = Instance
    /\ pc = "done"
    /\ Normalized(cal, raw)
    /\ raw.day = days_in_month(cal, raw.month, Some(raw.year)).value
    /\ dttuple = raw

\* the month lengths the claim gives the standard calendar
C6_StandardLength(m, y) ==
    IF m = 2 /\ (IF y < 1582 THEN y % 4 = 0
                 ELSE (y % 4 = 0 /\ y % 100 # 0) \/ y % 400 = 0)
    THEN 29
    ELSE Gregorian[m]

C6_NextMonth(t) ==
    IF t.month = 12
    THEN [t EXCEPT !.month = 1, !.year = @ + 1]
    ELSE [t EXCEPT !.month = @ + 1]

\* a raw date whose day runs over into the following month
C6_Overflow(t) ==
    /\ t.month \in 1..12
    /\ t.hour \in 0..23 /\ t.minute \in 0..59 /\ t.second \in 0..59
    /\ t.day > C6_StandardLength(t.month, t.year)
    /\ t.day <= C6_StandardLength(t.month, t.year)
                 + C6_StandardLength(C6_NextMonth(t).month, C6_NextMonth(t).year)

\* C6: on the standard calendar a day d with days_in_month(m, y) < d <=
\* days_in_month(m, y) + (length of the following month) normalizes to day
\* d - days_in_month(m, y) of the following month; (2021, 2, 30, 0, 0, 0.0)
\* normalizes to (2021, 3, 2, 0, 0, 0.0).
C6_StandardCarry ==
    (calendar = "standard" /\ pc # "idle" /\ C6_Overflow(raw)) =>
        /\ pc = "done"
        /\ dttuple = [C6_NextMonth(raw) EXCEPT
                         !.day = @ - C6_StandardLength(raw.month, raw.year)]

-----------------------------------------------------------------------------
(* Properties of the calendar queries, under CalSpec *)

\* C7: the Standard calendar's is_leap_year(y) is the Julian rule for
\* y < 1582 and the Gregorian rule from 1582 on.
C7_StandardLeapRule ==
    created.name \in {"standard", "gregorian"} =>
        /\ created.exc = NoExc
        /\ query.op = "is_leap_year" =>
               query.bool =
                   (IF query.year[1] < 1582 THEN query.year[1] % 4 = 0
                    ELSE \/ query.year[1] % 4 = 0 /\ query.year[1] % 100 # 0
                         \/ query.year[1] % 400 = 0)

\* C8: a Generic calendar with reference leap_year L (0 included) has
\* is_leap_year(y) iff (y - L) mod 4 = 0, and one with no leap_year has no
\* leap years.
C8_PeriodicLeapRule ==
    (IsCalendar(cal) /\ query.op = "is_leap_year") =>
        query.bool = (/\ cal.leap_year # None
                      /\ (query.year[1] - cal.leap_year[1]) % 4 = 0)

\* C9: with a leap month configured, days_in_month(month, year) for a month
\* in 1..12 is the non-leap length plus one when month is the leap month and
\* the given year (0 included) is a leap year, and the non-leap length
\* otherwise and when no year is given.
C9_DaysInMonth ==
    (/\ IsCalendar(cal)
     /\ cal.leap_month # None
     /\ query.op = "days_in_month"
     /\ query.month[1] \in 1..12) =>
        /\ query.exc = NoExc
        /\ query.int =
               cal.month_lengths[query.month[1]]
               + (IF /\ query.year # None
                     /\ query.month = cal.leap_month
                     /\ is_leap_year(cal, query.year[1])
                  THEN 1 ELSE 0)

\* C10: days_in_year(y) is the sum over the months 1..12 of
\* days_in_month(month, y), with and without a year.
C10_DaysInYear ==
    (IsCalendar(cal) /\ query.op = "days_in_year") =>
        query.int =
            sum([m \in 1..12 |-> days_in_month(cal, m, query.year).value])

\* the Gregorian leap rule as the claims state it
GregorianRule(y) == (y % 4 = 0 /\ y % 100 # 0) \/ y % 400 = 0

\* C11: on the standard calendar days_in_month(2, y) for y >= 1582 is 29 when
\* y is divisible by 4 and not by 100, or by 400, and 28 otherwise.
C11_StandardLeapDay ==
    created.name = "standard" =>
        /\ IsCalendar(cal)
        /\ (/\ query.op = "days_in_month"
            /\ query.month = Some(2)
            /\ query.year # None
            /\ query.year[1] >= 1582) =>
               query.int = (IF GregorianRule(query.year[1]) THEN 29 ELSE 28)

\* the answer of create_calendar(n).is_leap_year(y)
LeapAnswer(n, y) ==
    LET r == create_calendar(n, None, None, None)
    IN  [exc |-> r.exc, bool |-> r.exc = NoExc /\ is_leap_year(r.obj, y)]

\* C12: the Standard calendar's is_leap_year(y) equals the Julian calendar's
\* for y < 1582 and the proleptic Gregorian calendar's for y >= 1582.
C12_CutoverAgreement ==
    created.name = "standard" =>
        \A y \in QueryYears :
            LET other == LeapAnswer(IF y < 1582 THEN "julian"
                                    ELSE "proleptic_gregorian", y)
            IN  /\ created.exc = NoExc
                /\ other.exc = NoExc
                /\ is_leap_year(cal, y) = other.bool

\* the name a recognized calendar reports: the requested name or its synonym
CanonicalName(n) ==
    CASE n = "gregorian" -> "standard"
      [] n = "noleap" -> "365_day"
      [] n = "all_leap" -> "366_day"
      [] OTHER -> n

\* C13: create_calendar(name) returns a calendar for every recognized name,
\* and name() is the requested name or its canonical synonym; a Generic
\* calendar reports the name it was created with.
C13_NameRoundTrip ==
    /\ created.name \in RecognizedNames =>
           (created.exc = NoExc /\ IsCalendar(cal)
            /\ Calendar_name(cal) = CanonicalName(created.name))
    /\ IsCalendar(cal) => Calendar_name(cal) = CanonicalName(created.name)

\* C14: a Generic calendar with leap_year set and leap_month unset is not
\* constructed: the call fails and no such object exists.
C14_LeapMonthRequired ==
    /\ (created.leap_year # None /\ created.leap_month = None
        /\ created.name = UserName) => created.exc # NoExc
    /\ IsCalendar(cal) => ~(cal.leap_year # None /\ cal.leap_month = None)

\* C15: a constructed calendar has 12 month lengths, each positive, and a
\* leap_month, when present, in 1..12.
C15_CalendarWellFormed ==
    IsCalendar(cal) =>
        /\ Len(cal.month_lengths) = 12
        /\ \A m \in 1..Len(cal.month_lengths) : cal.month_lengths[m] > 0
        /\ cal.leap_month # None => cal.leap_month[1] \in 1..12

-----------------------------------------------------------------------------
(* Properties of the unit functions, under UnitSpec *)

\* s and t are the same text up to the case of their letters
SameLetters(s, t) ==
    /\ Len(s) = Len(t)
    /\ \A i \in 1..Len(s) :
           \/ s[i] = t[i]
           \/ \E k \in 1..Len(Uppercase) :
                  {s[i], t[i]} = {Uppercase[k], Lowercase[k]}

\* the canonical unit u and the registered aliases of u
NamesOf(u) ==
    {u} \cup {timeunits__ALIASES__[i][1] :
                 i \in {j \in 1..Len(timeunits__ALIASES__) : timeunits__ALIASES__[j][2] = u}}

\* the canonical units that s names, in whatever letter case s is written
UnitsNamed(s) ==
    {u \in {__STANDARDS__[i] : i \in 1..Len(__STANDARDS__)} :
        \E a \in NamesOf(u) : SameLetters(s, a)}

\* C16: find_unit maps every canonical unit and every registered alias, in
\* lower or upper case, to its canonical unit; every other string raises
\* ValueError and every argument that is not a string raises TypeError, so
\* that no argument yields a default unit.
C16_FindUnitTotal ==
    ucall.fn = "find_unit" =>
        IF ucall.arg.kind # "str"
        THEN ucall.exc.type = "TypeError" /\ ucall.value = PyNone
        ELSE IF UnitsNamed(ucall.arg.s) = {}
        THEN ucall.exc.type = "ValueError" /\ ucall.value = PyNone
        ELSE /\ ucall.exc = NoExc
             /\ ucall.value.kind = "str"
             /\ UnitsNamed(ucall.arg.s) = {ucall.value.s}

\* find_unit has mapped the upper-case alias HRS to hours
C16_Witness ==
    /\ ucall.fn = "find_unit"
    /\ ucall.arg = PyStr(str_upper(<<"h", "r", "s">>))
    /\ ucall.arg.s # <<"h", "r", "s">>
    /\ ucall.exc = NoExc
    /\ ucall.value = PyStr(<<"h", "o", "u", "r", "s">>)

\* C17: __index_to_unit__ returns a unit exactly for the indices 0..5, and
\* there it is the inverse of __unit_to_index__ in both directions; for
\* every other integer it raises IndexError and returns no unit.
C17_IndexInverse ==
    /\ (ucall.fn = "__index_to_unit__" /\ ucall.arg.kind \in {"int", "long"}) =>
           IF ucall.arg.n \in 0..5
           THEN /\ ucall.exc = NoExc
                /\ ucall.value.kind = "str"
                /\ __unit_to_index__(ucall.value) = Returned(PyInt(ucall.arg.n))
           ELSE ucall.exc.type = "IndexError" /\ ucall.value = PyNone
    /\ (/\ ucall.fn = "__unit_to_index__"
        /\ ucall.arg.kind = "str"
        /\ list_contains(__INDICES__, ucall.arg.s)) =>
           /\ ucall.exc = NoExc
           /\ __index_to_unit__(ucall.value) = Returned(ucall.arg)

\* __index_to_unit__(-1) has raised IndexError
C17_Witness ==
    /\ ucall.fn = "__index_to_unit__"
    /\ ucall.arg = PyInt(-1)
    /\ ucall.exc.type = "IndexError"

\* C18: for every string, __unit_to_index__ succeeds exactly when find_unit
\* does, whatever the case of the letters, and then returns the position
\* (0..5, years..seconds) of the unit that find_unit returns.
C18_IndexAgreesWithName ==
    (ucall.fn = "__unit_to_index__" /\ ucall.arg.kind = "str") =>
        LET unit == find_unit(ucall.arg)
        IN  /\ (ucall.exc = NoExc) <=> (unit.exc = NoExc)
            /\ unit.exc = NoExc =>
                   ucall.value = PyInt(list_index(__STANDARDS__, unit.value.s))

-----------------------------------------------------------------------------
(* Properties of CFDateTimeDelta, under DeltaSpec *)

\* the numbers of the tuples s and t are equal, position by position
TupleEqual(s, t) ==
    /\ Len(s) = Len(t)
    /\ \A i \in 1..Len(s) : s[i].n = t[i].n

BothDeltas == \A k \in 1..Len(dcall.args) : dcall.args[k].kind = "delta"

\* C19: a + b and a - b of two deltas are deltas whose six components are
\* the sums and the differences of the components of a and b, and b - a is
\* the negation of a - b; sum of a list of deltas is the delta of the
\* component-wise totals (of an empty list, the int 0 that sum starts from).
C19_ComponentWise ==
    /\ (dcall.op = "a+b" /\ BothDeltas) =>
           /\ dcall.exc = NoExc
           /\ dcall.value.kind = "delta"
           /\ Len(dcall.value.items) = 6
           /\ \A i \in 1..6 :
                  dcall.value.items[i].n
                      = dcall.args[1].items[i].n + dcall.args[2].items[i].n
    /\ (dcall.op = "a-b" /\ BothDeltas) =>
           /\ dcall.exc = NoExc
           /\ dcall.value.kind = "delta"
           /\ Len(dcall.value.items) = 6
           /\ \A i \in 1..6 :
                  dcall.value.items[i].n
                      = dcall.args[1].items[i].n - dcall.args[2].items[i].n
           /\ LET reverse == binary_sub(dcall.args[2], dcall.args[1])
                  negated == __neg__(dcall.value)
              IN  /\ reverse.exc = NoExc
                  /\ negated.exc = NoExc
                  /\ reverse.value.kind = "delta"
                  /\ TupleEqual(reverse.value.items, negated.value.items)
    /\ dcall.op = "sum" =>
           /\ dcall.exc = NoExc
           /\ IF dcall.args = <<>>
              THEN dcall.value = PyInt(0)
              ELSE /\ dcall.value.kind = "delta"
                   /\ Len(dcall.value.items) = 6
                   /\ \A i \in 1..6 :
                          dcall.value.items[i].n
                              = sum([k \in 1..Len(dcall.args) |->
                                        dcall.args[k].items[i].n])

\* (3, 3, 3, 3, 3, 3) + (2, 2, 2, 2, 2, 2) has given (5, 5, 5, 5, 5, 5)
C19_Witness ==
    /\ dcall.op = "a+b"
    /\ dcall.args = <<PyDelta(Constant(3)), PyDelta(Constant(2))>>
    /\ dcall.value = PyDelta(Constant(5))

\* C20: the negation of the negation of a delta d has the tuple of d, and
\* d + (-d) is the delta of six zeros.
C20_NegationSelfInverse ==
    dcall.op = "-a" =>
        LET d == dcall.args[1]
            back == __neg__(dcall.value)
            both == binary_add(d, dcall.value)
        IN  /\ dcall.exc = NoExc
            /\ dcall.value.kind = "delta"
            /\ back = Returned(d)
            /\ both.exc = NoExc
            /\ both.value.kind = "delta"
            /\ Len(both.value.items) = 6
            /\ \A i \in 1..6 : both.value.items[i].n = 0

\* the third object is -(-d) of the first, d = (3, 3, 3, 3, 3, 3)
C20_Witness ==
    /\ Len(objs) = 3
    /\ dcall.op = "-a"
    /\ objs[1] = PyDelta(Constant(3))
    /\ objs[2] = PyDelta(Constant(-3))
    /\ dcall.args = <<objs[2]>>
    /\ dcall.value = objs[3]
    /\ objs[3] = objs[1]

-----------------------------------------------------------------------------
(* Properties of += and -= on CFDateTimeDelta, under InPlaceSpec *)

\* every object but the one at position i is in objs' what it is in objs
OnlyChanged(i) ==
    /\ Len(objs') = Len(objs)
    /\ \A k \in 1..Len(objs) : k # i => objs'[k] = objs[k]

\* C21: a += b and a -= b with a delta b leave in a the component-wise sum
\* and difference of a's previous tuple and b's tuple, which is the tuple
\* of a + b and a - b, and return a; with an operand that is not a delta
\* they raise TypeError and leave a as it was.  In both cases every object
\* other than a, copies made by +a included, keeps its tuple.
C21_OnlyReceiverChanges ==
    [][inplace'.n = inplace.n + 1 =>
          LET i == inplace'.self
              a == objs[i]
              b == dcall'.args[2]
              plain == IF dcall'.op = "a+=b" THEN binary_add(a, b)
                       ELSE binary_sub(a, b)
          IN  /\ dcall'.op \in {"a+=b", "a-=b"}
              /\ dcall'.args[1] = a
              /\ OnlyChanged(i)
              /\ IF b.kind = "delta"
                 THEN /\ dcall'.exc = NoExc
                      /\ dcall'.value = objs'[i]
                      /\ objs'[i].kind = "delta"
                      /\ Len(objs'[i].items) = 6
                      /\ \A j \in 1..6 :
                             objs'[i].items[j].n =
                                 IF dcall'.op = "a+=b"
                                 THEN a.items[j].n + b.items[j].n
                                 ELSE a.items[j].n - b.items[j].n
                      /\ plain.exc = NoExc
                      /\ TupleEqual(objs'[i].items, plain.value.items)
                 ELSE /\ dcall'.exc.type = "TypeError"
                      /\ objs'[i] = a]_vars

\* a was (3, 3, 3, 3, 3, 3) with a copy made by +a; after a += a, a is
\* (6, 6, 6, 6, 6, 6) and the copy is (3, 3, 3, 3, 3, 3)
C21_Witness ==
    /\ dcall.op = "a+=b"
    /\ inplace = [n |-> 1, self |-> 1]
    /\ dcall.args = <<PyDelta(Constant(3)), PyDelta(Constant(3))>>
    /\ objs = <<PyDelta(Constant(6)), PyDelta(Constant(3))>>

-----------------------------------------------------------------------------
(* Properties of the CFDateTimeDelta constructor, under NewSpec *)

\* t is a tuple of six values, five integers and an integer or a float
WellFormed(t) ==
    /\ Len(t) = 6
    /\ \A i \in 1..5 : t[i].kind \in {"int", "long"}
    /\ t[6].kind \in {"int", "long", "float"}

\* the six values given by position: as six arguments, or as one tuple or list
Positional(params) ==
    IF Len(params) = 1 /\ params[1].kind \in {"list", "tuple"}
    THEN params[1].items
    ELSE params

\* C22: positional arguments that are not a well-formed tuple of six values
\* make the constructor raise ValueError, and no object is made.
C22_MalformedRejected ==
    (/\ dcall.op = "CFDateTimeDelta"
     /\ dcall.args # <<>>
     /\ ~WellFormed(Positional(dcall.args))) =>
        /\ dcall.exc.type = "ValueError"
        /\ dcall.value = PyNone
        /\ objs = <<>>

\* the tuple t with the value of every keyword at the position of its unit
RECURSIVE Overridden(_, _)
Overridden(t, kwargs) ==
    IF kwargs = <<>> THEN t
    ELSE Overridden(
             [t EXCEPT ![__unit_to_index__(Head(kwargs)[1]).value.n + 1] =
                           Head(kwargs)[2]],
             Tail(kwargs))

Recognized(kwargs) ==
    \A k \in 1..Len(kwargs) : __unit_to_index__(kwargs[k][1]).exc = NoExc

\* C23: a well-formed positional tuple together with keywords that name
\* units gives the object whose tuple is the positional one with the
\* keyword values at the positions of their units (where that tuple is
\* well-formed); a keyword that names no unit makes the constructor raise.
C23_KeywordsOverride ==
    (/\ dcall.op = "CFDateTimeDelta"
     /\ WellFormed(Positional(dcall.args))
     /\ dcall.kwargs # <<>>) =>
        IF ~Recognized(dcall.kwargs)
        THEN dcall.exc # NoExc /\ dcall.value = PyNone
        ELSE WellFormed(Overridden(Positional(dcall.args), dcall.kwargs)) =>
                 /\ dcall.exc = NoExc
                 /\ dcall.value =
                        PyDelta(Overridden(Positional(dcall.args), dcall.kwargs))

\* C28: a list given to the constructor has after the call, whether an
\* object was made or an exception raised, the six values it had before.
C28_CallerListKept ==
    (/\ dcall.op = "CFDateTimeDelta"
     /\ Len(dcall.args) = 1
     /\ dcall.args[1].kind = "list"
     /\ dcall.kwargs # <<>>) =>
        passed = dcall.args

-----------------------------------------------------------------------------
(* Further properties of DateTime construction, under Spec *)

\* C27: the zone of the normalized tuple is the zone given to the
\* constructor, and so is the zone held by the normalization at every one
\* of its loops, whatever it carries or borrows.
C27_ZoneUnchanged ==
    /\ pc = "done" => dttuple.zone = raw.zone
    /\ (\E i \in 1..Len(Loops) : pc = Loops[i]) => loc.zone = raw.zone

\* a construction with zone -7 has carried an hour into the day
C27_Witness ==
    /\ pc = "done"
    /\ raw.zone = -7
    /\ raw.hour = 24
    /\ dttuple.hour = 0
    /\ dttuple.day # raw.day
    /\ dttuple.zone = -7

\* the days from day 1 of month 1 of year epoch to day 1 of month m of year
\* y under calendar c: the sum of days_in_month over the months in between
RECURSIVE DaysBefore(_, _, _, _)
DaysBefore(c, epoch, y, m) ==
    IF y < epoch \/ (y = epoch /\ m <= 1) THEN 0
    ELSE LET py == IF m = 1 THEN y - 1 ELSE y
             pm == IF m = 1 THEN 12 ELSE m - 1
         IN  DaysBefore(c, epoch, py, pm) + days_in_month(c, pm, Some(py)).value

\* the seconds from the start of year epoch to the instant that t denotes
SecondsSince(c, epoch, t) ==
    (DaysBefore(c, epoch, t.year, t.month) + t.day - 1) * 86400
        + t.hour * 3600 + t.minute * 60 + t.second

\* C29: on a calendar with positive month lengths, a raw tuple with month
\* in 1..12 and its normalized tuple denote the same instant, counted in
\* seconds from the start of the raw year.
C29_InstantPreserved ==
    (/\ calendar = Instance
     /\ pc = "done"
     /\ raw.month \in 1..12
     /\ \A m \in 1..12 : cal.month_lengths[m] > 0) =>
        /\ dttuple.year >= raw.year
        /\ SecondsSince(cal, raw.year, dttuple) = SecondsSince(cal, raw.year, raw)

-----------------------------------------------------------------------------
(* Properties of a Calendar shared by two constructions, under SharedSpec *)

\* a calendar newly made from the arguments the client's calendar was made from
Fresh ==
    create_calendar(created.name, created.month_lengths, created.leap_year,
                    created.leap_month).obj

\* normalize_datetime run without interruption from the condition of loop i
\* with locals t under calendar c: how it ends and the locals it ends with
RECURSIVE Alone(_, _, _)
Alone(i, c, t) ==
    LET g == Goto(i, c, t)
    IN  IF g.pc \in {"done", "raised"}
        THEN [pc |-> g.pc, exc |-> g.exc, t |-> t]
        ELSE LET k == LoopOf(g.pc)
                 r == LoopBody(k, c, t)
             IN  IF r.exc # NoExc
                 THEN [pc |-> "raised", exc |-> r.exc, t |-> r.t]
                 ELSE Alone(k, c, r.t)

\* a construction that has ended at position p with exception e and stored
\* tuple d from the raw tuple r ended as it does alone on a fresh calendar
AsAlone(p, e, d, r) ==
    /\ p = "done" => Alone(1, Fresh, r) = [pc |-> "done", exc |-> NoExc, t |-> d]
    /\ p = "raised" => /\ Alone(1, Fresh, r).pc = "raised"
                       /\ Alone(1, Fresh, r).exc = e

\* C24: while DateTime constructions and is_leap_year, days_in_month and
\* days_in_year queries interleave on one Calendar object, the calendar keeps
\* the name, month lengths and leap parameters it was constructed with, and
\* every construction ends with the tuple (or the exception) it ends with when
\* it runs alone on a fresh calendar of the same kind
C24_SharedCalendarNotMutated ==
    IsCalendar(cal) =>
        /\ cal = Fresh
        /\ AsAlone(pc, exc, dttuple, raw)
        /\ AsAlone(concurrent.pc, concurrent.exc, concurrent.dttuple,
                   concurrent.raw)

\* the first construction has normalized its tuple while the second is in the
\* day-carry loop after earlier passes, and a query has been answered
C24_Witness ==
    /\ pc = "done"
    /\ dttuple # raw
    /\ concurrent.pc = "day_carry"
    /\ concurrent.loc # concurrent.raw
    /\ concurrent.raw # raw
    /\ query.op = "days_in_month"

-----------------------------------------------------------------------------
(* Properties of TimeKeeper, under KeeperSpec *)

Listed == {_added_order[i] : i \in 1..Len(_added_order)}

\* C25: get_order lists every timer name once, in the order of first use by
\* reset, start, stop or get_time, and the listed names are the names with an
\* accumulated time and a start time
C25_OrderInvariant ==
    /\ _added_order = history.used
    /\ \A i, j \in 1..Len(_added_order) :
          _added_order[i] = _added_order[j] => i = j
    /\ Listed = DOMAIN _accumulated_times
    /\ Listed = DOMAIN _start_times
    /\ kcall.op = "get_order" => kcall.order = history.used

\* get_order has returned b before a after both were used more than once
C25_Witness ==
    /\ kcall.op = "get_order"
    /\ kcall.n = MaxCalls
    /\ kcall.order = <<"b", "a">>

\* every timer but name has the accumulated time and the start time it had
OthersKept(name) ==
    \A m \in DOMAIN _accumulated_times \ {name} :
        /\ m \in DOMAIN _accumulated_times'
        /\ _accumulated_times'[m] = _accumulated_times[m]
        /\ _start_times'[m] = _start_times[m]

\* C26: stop(name) on an existing timer adds the time since the most recent
\* start or reset of that name to its accumulated time and changes no other
\* timer; stop, start and get_time on a name never used create the timer with
\* accumulated time 0; reset(name) sets the accumulated time of name to 0 and
\* changes no other timer
C26_StopFrame ==
    [][kcall'.n = kcall.n + 1 /\ kcall'.op # "get_order" =>
         LET name == kcall'.name
             used == InList(name, history.used)
         IN  /\ kcall'.op = "stop" /\ used =>
                  /\ _accumulated_times'[name] = _accumulated_times[name]
                         + (clock - history.marked_at[name])
                  /\ OthersKept(name)
             /\ kcall'.op \in {"stop", "start", "get_time"} /\ ~used =>
                  /\ name \in DOMAIN _accumulated_times'
                  /\ _accumulated_times'[name] = 0
             /\ kcall'.op = "reset" =>
                  /\ _accumulated_times'[name] = 0
                  /\ OthersKept(name)]_vars

\* a stop of a has added two ticks, the time since a was started, while b
\* keeps the tick it has accumulated
C26_Witness ==
    /\ kcall.op = "stop"
    /\ kcall.name = "a"
    /\ history.marked_at = [n \in {"a", "b"} |-> IF n = "a" THEN 1 ELSE 0]
    /\ clock = 3
    /\ _accumulated_times = [n \in {"a", "b"} |-> IF n = "a" THEN 2 ELSE 1]

\* C30: the accumulated time of a timer is not negative and not more than the
\* time the clock has moved since the timer was created or last reset
C30_AccumulatedWithinElapsed ==
    \A name \in DOMAIN _accumulated_times :
        /\ 0 <= _accumulated_times[name]
        /\ _accumulated_times[name] <= clock - history.reset_at[name]

====
